---------------------------- MODULE Spec2Model ----------------------------
(***************************************************************************)
(* tmuxjump (src/scripts/tmuxjump.py): one invocation of main().           *)
(*                                                                         *)
(* A string is a sequence of one-character strings, so that strip, the key *)
(* regular expression, split(":", 1), expanduser and int() are computed    *)
(* character by character, as the Python code computes them.               *)
(***************************************************************************)
EXTENDS Integers, Sequences, FiniteSets, TLC

(***************************************************************************)
(* Bounds of the model.                                                    *)
(***************************************************************************)
\* longest jumplist file drawn from Lines, in lines
MaxLines == 3

(***************************************************************************)
(* Characters.                                                             *)
(***************************************************************************)
Digits == {"0", "1", "2", "3", "4", "5", "6", "7", "8", "9"}

Letters ==
    {"a", "b", "c", "d", "e", "f", "g", "h", "i", "j", "k", "l", "m",
     "n", "o", "p", "q", "r", "s", "t", "u", "v", "w", "x", "y", "z",
     "A", "B", "C", "D", "E", "F", "G", "H", "I", "J", "K", "L", "M",
     "N", "O", "P", "Q", "R", "S", "T", "U", "V", "W", "X", "Y", "Z"}

\* the character class [0-9a-zA-Z] of the key pattern
Alnum == Digits \cup Letters

\* the characters str.strip() removes (those that occur in the inputs)
Whitespace == {" ", "\t", "\n"}

DigitVal(c) ==
    CASE c = "0" -> 0 [] c = "1" -> 1 [] c = "2" -> 2 [] c = "3" -> 3
      [] c = "4" -> 4 [] c = "5" -> 5 [] c = "6" -> 6 [] c = "7" -> 7
      [] c = "8" -> 8 [] c = "9" -> 9

(***************************************************************************)
(* String functions of the Python library, as the code uses them.          *)
(***************************************************************************)
\* s[from..] (1-based), empty when from is past the end
Tail_(s, from) == SubSeq(s, from, Len(s))

RECURSIVE LStrip(_)
LStrip(s) ==
    IF s # <<>> /\ Head(s) \in Whitespace THEN LStrip(Tail(s)) ELSE s

RECURSIVE RStrip(_)
RStrip(s) ==
    IF s # <<>> /\ s[Len(s)] \in Whitespace
    THEN RStrip(SubSeq(s, 1, Len(s) - 1))
    ELSE s

\* str.strip()
Strip(s) == RStrip(LStrip(s))

\* str.find(c) + 1: the 1-based position of the first c in s, 0 if none
Find(s, c) ==
    IF \E i \in 1..Len(s) : s[i] = c
    THEN CHOOSE i \in 1..Len(s) : s[i] = c /\ \A j \in 1..(i - 1) : s[j] # c
    ELSE 0

\* c in s
Contains(s, c) == Find(s, c) # 0

\* s.split(c, 1) for s containing c: the parts before and after the first c
SplitFirst(s, c) ==
    LET p == Find(s, c)
    IN  <<SubSeq(s, 1, p - 1), Tail_(s, p + 1)>>

\* str.rstrip("/")
RECURSIVE RStripSlash(_)
RStripSlash(s) ==
    IF s # <<>> /\ s[Len(s)] = "/"
    THEN RStripSlash(SubSeq(s, 1, Len(s) - 1))
    ELSE s

(***************************************************************************)
(* The environment of os.path.expanduser: $HOME, and the password database *)
(* that "~user" is looked up in.                                           *)
(***************************************************************************)
Home == <<"/", "h">>

PasswdUsers == {<<"r">>}

PasswdHome(user) == <<"/", "r">>

\* os.path.expanduser(path): only a leading "~" is expanded; "~user" of an
\* unknown user, and every path not beginning with "~", is returned as is
ExpandUser(path) ==
    IF path = <<>> \/ Head(path) # "~"
    THEN path
    ELSE LET slash == Find(path, "/")
             i == IF slash = 0 THEN Len(path) + 1 ELSE slash
             user == SubSeq(path, 2, i - 1)
         IN  IF i = 2
             THEN LET r == RStripSlash(Home) \o Tail_(path, i)
                  IN  IF r = <<>> THEN <<"/">> ELSE r
             ELSE IF user \in PasswdUsers
             THEN LET r == RStripSlash(PasswdHome(user)) \o Tail_(path, i)
                  IN  IF r = <<>> THEN <<"/">> ELSE r
             ELSE path

(***************************************************************************)
(* int(s): surrounding whitespace is stripped, one optional sign, then     *)
(* decimal digits; anything else raises ValueError (ok = FALSE).           *)
(***************************************************************************)
RECURSIVE DigitsValue(_)
DigitsValue(ds) ==
    IF ds = <<>> THEN 0
    ELSE 10 * DigitsValue(SubSeq(ds, 1, Len(ds) - 1)) + DigitVal(ds[Len(ds)])

PyInt(s) ==
    LET t == Strip(s)
        signed == t # <<>> /\ Head(t) \in {"-", "+"}
        ds == IF signed THEN Tail(t) ELSE t
    IN  IF ds # <<>> /\ \A i \in 1..Len(ds) : ds[i] \in Digits
        THEN [ok |-> TRUE,
              val |-> IF signed /\ Head(t) = "-"
                      THEN 0 - DigitsValue(ds) ELSE DigitsValue(ds)]
        ELSE [ok |-> FALSE, val |-> 0]

(***************************************************************************)
(* Dictionaries: functions on a finite set of strings.                     *)
(***************************************************************************)
EmptyDict == [k \in {} |-> <<>>]

\* d[k] = v
DictSet(d, k, v) ==
    [x \in DOMAIN d \cup {k} |-> IF x = k THEN v ELSE d[x]]


(***************************************************************************)
(* parse_tmuxjumplist_file: the body of the loop over the file's lines.    *)
(* A parse state is [sessions, dirs, num_map].                             *)
(***************************************************************************)
EmptyIndex == [sessions |-> <<>>, dirs |-> EmptyDict, num_map |-> EmptyDict]

\* re.match(r"^([0-9a-zA-Z]+):(.+)$", line): the longest alphanumeric prefix
\* is not empty, a colon follows it, and something follows the colon
KeyMatch(line) ==
    LET p == Find(line, ":")
    IN  /\ p > 1
        /\ \A i \in 1..(p - 1) : line[i] \in Alnum
        /\ Len(line) > p

\* match.group(1)
KeyName(line) == SubSeq(line, 1, Find(line, ":") - 1)

\* match.group(2)
KeyRest(line) == Tail_(line, Find(line, ":") + 1)

\* AddNameDir without the call of expanduser
AddNameDirRaw(st, text) ==
    LET parts == SplitFirst(text, ":")
    IN  [st EXCEPT !.sessions = Append(@, parts[1]),
                   !.dirs = DictSet(@, parts[1], parts[2])]

\* sessions.append(sname); dirs[sname] = expanduser(srawdir), for text
\* "sname:srawdir" split at its first colon
AddNameDir(st, text) ==
    LET parts == SplitFirst(text, ":")
        sname == parts[1]
        sdir  == ExpandUser(parts[2])
    IN  [st EXCEPT !.sessions = Append(@, sname),
                   !.dirs = DictSet(@, sname, sdir)]

\* ParseKeyedLine registering the session of a line whose key was seen,
\* without a key
ParseKeyedLineKeepSession(st, line) ==
    LET keyname == KeyName(line)
        rest    == KeyRest(line)
        st1     == IF Contains(rest, ":") THEN AddNameDir(st, rest)
                   ELSE [st EXCEPT !.sessions = Append(@, rest)]
        sname   == IF Contains(rest, ":") THEN SplitFirst(rest, ":")[1]
                   ELSE rest
    IN  IF keyname \notin DOMAIN st.num_map
        THEN [st1 EXCEPT !.num_map = DictSet(@, keyname, sname)]
        ELSE st1

\* the branch of a line that matches the key pattern
ParseKeyedLine(st, line) ==
    LET keyname == KeyName(line)
        rest    == KeyRest(line)
    IN  IF keyname \notin DOMAIN st.num_map
        THEN IF Contains(rest, ":")
             THEN LET st1 == AddNameDir(st, rest)
                  IN  [st1 EXCEPT !.num_map =
                           DictSet(@, keyname, SplitFirst(rest, ":")[1])]
             ELSE [st EXCEPT !.sessions = Append(@, rest),
                             !.num_map = DictSet(@, keyname, rest)]
        ELSE st

\* one iteration of "for line in f"
ParseLine(st, raw) ==
    LET line == Strip(raw)
    IN  IF line = <<>> \/ Head(line) = "#" THEN st
        ELSE IF KeyMatch(line) THEN ParseKeyedLine(st, line)
        ELSE IF Contains(line, ":") THEN AddNameDir(st, line)
        ELSE [st EXCEPT !.sessions = Append(@, line)]

(***************************************************************************)
(* get_session_and_dir.                                                    *)
(***************************************************************************)
\* sessions[idx] of a Python list: a negative idx counts from the end, and
\* an idx outside -len..len-1 raises IndexError (ok = FALSE)
PyIndex(list, idx) ==
    IF 0 <= idx /\ idx < Len(list) THEN [ok |-> TRUE, val |-> list[idx + 1]]
    ELSE IF idx < 0 /\ 0 - idx <= Len(list)
    THEN [ok |-> TRUE, val |-> list[Len(list) + idx + 1]]
    ELSE [ok |-> FALSE, val |-> <<>>]

\* ResolveKey counting positions from 1
ResolveKeyOneBased(index, sess, nmap) ==
    IF index \in DOMAIN nmap
    THEN [ok |-> TRUE, session |-> nmap[index]]
    ELSE LET n == PyInt(index)
         IN  IF ~n.ok THEN [ok |-> FALSE, session |-> <<>>]
             ELSE IF n.val > Len(sess) THEN [ok |-> FALSE, session |-> <<>>]
             ELSE LET e == PyIndex(sess, n.val - 1)
                  IN  [ok |-> e.ok, session |-> e.val]

\* ResolveKey trying the key as an index before the key mapping
ResolveKeyIndexFirst(index, sess, nmap) ==
    LET n == PyInt(index)
    IN  IF n.ok /\ n.val < Len(sess) /\ PyIndex(sess, n.val).ok
        THEN [ok |-> TRUE, session |-> PyIndex(sess, n.val).val]
        ELSE IF index \in DOMAIN nmap
        THEN [ok |-> TRUE, session |-> nmap[index]]
        ELSE [ok |-> FALSE, session |-> <<>>]

\* the key half: [ok, session]; ok = FALSE is error_exit(..., 65)
ResolveKey(index, sess, nmap) ==
    IF index \in DOMAIN nmap
    THEN [ok |-> TRUE, session |-> nmap[index]]
    ELSE LET n == PyInt(index)
         IN  IF ~n.ok THEN [ok |-> FALSE, session |-> <<>>]
             ELSE IF n.val >= Len(sess) THEN [ok |-> FALSE, session |-> <<>>]
             ELSE LET e == PyIndex(sess, n.val)
                  IN  [ok |-> e.ok, session |-> e.val]

\* os.path.expanduser(f"~/{session}")
HomeSubdir(s) == ExpandUser(<<"~", "/">> \o s)

\* ResolveDir trying ~/<session> before the declared directory
ResolveDirHomeFirst(s, ds, fs) ==
    IF HomeSubdir(s) \in fs THEN HomeSubdir(s)
    ELSE IF s \in DOMAIN ds THEN ds[s]
    ELSE ExpandUser(<<"~">>)

\* the directory half; fs is the set of paths that are directories on disk
ResolveDir(s, ds, fs) ==
    IF s \in DOMAIN ds THEN ds[s]
    ELSE IF HomeSubdir(s) \in fs THEN HomeSubdir(s)
    ELSE ExpandUser(<<"~">>)

(***************************************************************************)
(* count_alacritty_windows: int(output), 0 on ValueError.                  *)
(***************************************************************************)
WindowCount(output) ==
    IF PyInt(output).ok THEN PyInt(output).val ELSE 0

(***************************************************************************)
(* The inputs: the jumplist's lines, the key argument, the directories on  *)
(* disk, and what the probes of tmux and of the window system answer.      *)
(***************************************************************************)
\* "a:alpha:~/proj/alpha"
LineAlpha ==
    <<"a", ":", "a", "l", "p", "h", "a", ":",
      "~", "/", "p", "r", "o", "j", "/", "a", "l", "p", "h", "a">>

\* "dev"
LineDev == <<"d", "e", "v">>

\* "5:staging:/srv/staging"
LineStaging ==
    <<"5", ":", "s", "t", "a", "g", "i", "n", "g", ":",
      "/", "s", "r", "v", "/", "s", "t", "a", "g", "i", "n", "g">>

\* " # c": a comment after leading whitespace
LineComment == <<" ", "#", " ", "c">>

\* "1:work": a numeric key, no directory
LineWork == <<"1", ":", "w", "o", "r", "k">>

\* "a:b:rel": the key of LineAlpha with another name, a relative directory
LineDupKey == <<"a", ":", "b", ":", "r", "e", "l">>

\* "m-p:~/w ": a name that is no key token, a directory, trailing whitespace
LineNameDir == <<"m", "-", "p", ":", "~", "/", "w", " ">>

Lines ==
    {LineAlpha, LineDev, LineStaging, LineComment, LineWork, LineDupKey,
     LineNameDir}

\* the jumplist of the documented end-to-end example
ExampleFile == <<LineAlpha, LineDev, LineStaging>>

Files == UNION {[1..n -> Lines] : n \in 0..MaxLines}

\* sys.argv[1]: mapped keys, indices, a negative index, a non-number
KeyInputs ==
    {<<"a">>, <<"0">>, <<"1">>, <<"5">>, <<"9">>, <<"-", "1">>, <<"z", "z">>}

\* sys.argv[1:]
Argvs == {<<>>} \cup {<<k>> : k \in KeyInputs}

\* the directories on disk: none under $HOME, or ~/alpha and ~/dev
FsChoices ==
    {{}, {Home \o <<"/", "a", "l", "p", "h", "a">>, Home \o <<"/", "d", "e", "v">>}}

\* what "tmux list-clients | sort | awk" can do, with the stdout captured:
\* print the tty of a client, print nothing (no client attached), tmux
\* exiting non-zero, tmux not starting (the shell reports 127)
ClientTty == <<"/", "t">>

ClientProbes ==
    {[how |-> "client", out |-> ClientTty \o <<"\n">>],
     [how |-> "none", out |-> <<>>],
     [how |-> "nonzero", out |-> <<>>],
     [how |-> "nostart", out |-> <<>>]}

\* what subprocess.run(["osascript", ...]) can do: print a count, exit
\* non-zero with no output, print something that is no number, or raise
\* FileNotFoundError because osascript cannot be started
WindowProbes ==
    {[how |-> "count", out |-> <<"0", "\n">>],
     [how |-> "count", out |-> <<"2", "\n">>],
     [how |-> "nonzero", out |-> <<>>],
     [how |-> "garbage", out |-> <<"x", "\n">>],
     [how |-> "nostart", out |-> <<>>]}

NoProbe == [how |-> "unasked", out |-> <<>>]

\* exitCode of a process that has not exited
Running == 0 - 1

(***************************************************************************)
(* The tmux server, as ensure_tmux_session uses it.  Its session table is  *)
(* a list of [name, dir]; a command is [cmd, name, dir].  The server's     *)
(* side is its documented contract: has-session answers by name,           *)
(* new-session refuses a name that is taken, kill-session removes a name.  *)
(***************************************************************************)
HasNamed(reg, name) == \E i \in 1..Len(reg) : reg[i].name = name

TmuxExec(reg, c) ==
    CASE c.cmd = "new-session" ->
            IF HasNamed(reg, c.name) THEN reg
            ELSE Append(reg, [name |-> c.name, dir |-> c.dir])
      [] c.cmd = "kill-session" ->
            SelectSeq(reg, LAMBDA e : e.name # c.name)

RECURSIVE TmuxRun(_, _)
TmuxRun(reg, cmds) ==
    IF cmds = <<>> THEN reg
    ELSE TmuxRun(TmuxExec(reg, Head(cmds)), Tail(cmds))

\* the exit status of "tmux has-session -t name"; a command that is not
\* served (tmux missing at TMUX_BIN, the server refusing) exits non-zero
HasSessionStatus(reg, name, served) ==
    IF served /\ HasNamed(reg, name) THEN 0 ELSE 1

\* ensure_tmux_session after has-session returned retcode, killing and
\* recreating the session so that the directory applies
EnsureCommandsRecreate(retcode, s, d) ==
    <<[cmd |-> "kill-session", name |-> s, dir |-> d],
      [cmd |-> "new-session", name |-> s, dir |-> d]>>

\* ensure_tmux_session after has-session returned retcode: the tmux
\* commands it goes on to issue
EnsureCommands(retcode, s, d) ==
    IF retcode # 0
    THEN <<[cmd |-> "new-session", name |-> s, dir |-> d]>>
    ELSE <<>>

\* the invocations that run side by side
Procs == {1, 2}

\* an invocation that has not resolved anything
IdleInvocation ==
    [pc |-> "idle", session |-> <<>>, dir |-> <<>>, todo |-> <<>>,
     newCalls |-> 0, afterOther |-> FALSE, attach |-> "none",
     targetExisted |-> FALSE]

(***************************************************************************)
(* The state of one invocation, and of the tmux server with the            *)
(* invocations that share it.                                              *)
(***************************************************************************)
VARIABLES
    registry,      \* the tmux server's session table
    registry0,     \* the table before any invocation
    inv,           \* the invocations sharing the server, from ensure on
    argv,          \* sys.argv[1:]
    fileExists,    \* os.path.exists(MENU_FILE)
    file,          \* the lines of MENU_FILE
    fs,            \* the paths that are directories
    pc,            \* where main() is
    lineno,        \* the next line "for line in f" reads
    index,         \* [sessions, dirs, num_map] of parse_tmuxjumplist_file
    session,       \* main's session
    directory,     \* main's directory
    clientProbe,   \* what the list-clients pipeline did
    windowProbe,   \* what osascript did
    window_count,  \* main's window_count
    calls,         \* the external commands issued so far, in order
    attachRc,      \* how the attach action ended: 0, non-zero, Running if none
    exitCode       \* the exit status, Running until the process ends

vars ==
    <<argv, fileExists, file, fs, pc, lineno, index, session, directory,
      clientProbe, windowProbe, window_count, calls, attachRc, exitCode,
      registry, registry0, inv>>

\* main's own variables
mainVars ==
    <<argv, fileExists, file, fs, pc, lineno, index, session, directory,
      clientProbe, windowProbe, window_count, calls, attachRc, exitCode>>

\* the shared server, which the one-invocation specification leaves out:
\* there the exit status of has-session is free
tmuxVars == <<registry, registry0, inv>>

TmuxIdle ==
    /\ registry = <<>>
    /\ registry0 = <<>>
    /\ inv = [p \in Procs |-> IdleInvocation]

inputs == <<argv, fileExists, file, fs>>

Init ==
    /\ argv \in Argvs
    /\ fileExists \in BOOLEAN
    /\ file \in (IF fileExists THEN Files ELSE {<<>>})
    /\ fs \in FsChoices
    /\ pc = "main"
    /\ lineno = 1
    /\ index = EmptyIndex
    /\ session = <<>>
    /\ directory = <<>>
    /\ clientProbe = NoProbe
    /\ windowProbe = NoProbe
    /\ window_count = 0
    /\ calls = <<>>
    /\ attachRc = Running
    /\ exitCode = Running
    /\ TmuxIdle

\* sys.exit(code), and an uncaught exception (code 1)
Exit(code) ==
    /\ pc' = "exit"
    /\ exitCode' = code

\* main, lines 211-215: the usage check
CheckArgs ==
    /\ pc = "main"
    /\ IF Len(argv) < 1 THEN Exit(64)
       ELSE pc' = "open" /\ UNCHANGED exitCode
    /\ UNCHANGED <<inputs, tmuxVars, attachRc, lineno, index, session, directory, clientProbe,
                   windowProbe, window_count, calls>>

\* parse_tmuxjumplist_file, lines 51-58: the existence check
OpenFile ==
    /\ pc = "open"
    /\ IF ~fileExists THEN Exit(66)
       ELSE pc' = "parse" /\ UNCHANGED exitCode
    /\ UNCHANGED <<inputs, tmuxVars, attachRc, lineno, index, session, directory, clientProbe,
                   windowProbe, window_count, calls>>

\* parse_tmuxjumplist_file, lines 59-100: one line of the file
ReadLine ==
    /\ pc = "parse"
    /\ lineno <= Len(file)
    /\ index' = ParseLine(index, file[lineno])
    /\ lineno' = lineno + 1
    /\ UNCHANGED <<inputs, tmuxVars, attachRc, pc, session, directory, clientProbe, windowProbe,
                   window_count, calls, exitCode>>

\* GetSessionAndDir with main asking tmux for its clients before it resolves
\* the key
GetSessionAndDirAfterProbe ==
    /\ pc = "parse"
    /\ lineno > Len(file)
    /\ LET r == ResolveKey(argv[1], index.sessions, index.num_map)
       IN  IF r.ok
           THEN /\ session' = r.session
                /\ directory' = ResolveDir(r.session, index.dirs, fs)
                /\ pc' = "ensure"
                /\ UNCHANGED exitCode
           ELSE /\ Exit(65)
                /\ UNCHANGED <<session, directory>>
    /\ calls' = Append(calls, "list-clients")
    /\ UNCHANGED <<inputs, tmuxVars, attachRc, lineno, index, clientProbe, windowProbe,
                   window_count>>

\* get_session_and_dir, called with what the parse returned at end of file
GetSessionAndDir ==
    /\ pc = "parse"
    /\ lineno > Len(file)
    /\ LET r == ResolveKey(argv[1], index.sessions, index.num_map)
       IN  IF r.ok
           THEN /\ session' = r.session
                /\ directory' = ResolveDir(r.session, index.dirs, fs)
                /\ pc' = "ensure"
                /\ UNCHANGED exitCode
           ELSE /\ Exit(65)
                /\ UNCHANGED <<session, directory>>
    /\ UNCHANGED <<inputs, tmuxVars, attachRc, lineno, index, clientProbe, windowProbe,
                   window_count, calls>>

\* ensure_tmux_session: has-session, and new-session when it exits non-zero
EnsureTmuxSession ==
    /\ pc = "ensure"
    /\ \E retcode \in {0, 1} :
          calls' = IF retcode # 0
                   THEN calls \o <<"has-session", "new-session">>
                   ELSE Append(calls, "has-session")
    /\ pc' = "client"
    /\ UNCHANGED <<inputs, tmuxVars, attachRc, lineno, index, session, directory, clientProbe,
                   windowProbe, window_count, exitCode>>

\* get_most_recent_client, and main's test of what it returned
GetMostRecentClient ==
    /\ pc = "client"
    /\ \E p \in ClientProbes :
          /\ clientProbe' = p
          /\ pc' = IF Strip(p.out) # <<>> THEN "switch" ELSE "windows"
    /\ calls' = Append(calls, "list-clients")
    /\ UNCHANGED <<inputs, tmuxVars, attachRc, lineno, index, session, directory, windowProbe,
                   window_count, exitCode>>

\* switch_existing_client, then sys.exit(0); what switch-client returns is
\* dropped
SwitchExistingClient ==
    /\ pc = "switch"
    /\ calls' = calls \o <<"switch-client", "open">>
    /\ \E retcode \in {0, 1} : attachRc' = retcode
    /\ Exit(0)
    /\ UNCHANGED <<inputs, tmuxVars, lineno, index, session, directory, clientProbe,
                   windowProbe, window_count>>

\* count_alacritty_windows, and main's test of what it returned; osascript
\* not starting raises out of run_osascript, which nothing catches
CountAlacrittyWindows ==
    /\ pc = "windows"
    /\ \E p \in WindowProbes :
          /\ windowProbe' = p
          /\ IF p.how = "nostart"
             THEN /\ Exit(1)
                  /\ UNCHANGED window_count
             ELSE /\ window_count' = WindowCount(Strip(p.out))
                  /\ pc' = IF WindowCount(Strip(p.out)) > 0
                           THEN "type" ELSE "spawn"
                  /\ UNCHANGED exitCode
    /\ calls' = Append(calls, "count-windows")
    /\ UNCHANGED <<inputs, tmuxVars, attachRc, lineno, index, session, directory, clientProbe>>

\* type_into_alacritty, then sys.exit(0); what osascript returns is dropped
TypeIntoAlacritty ==
    /\ pc = "type"
    /\ calls' = Append(calls, "type")
    /\ \E retcode \in {0, 1} : attachRc' = retcode
    /\ Exit(0)
    /\ UNCHANGED <<inputs, tmuxVars, lineno, index, session, directory, clientProbe,
                   windowProbe, window_count>>

\* create_new_window: os.execvp replaces the process, or raises
CreateNewWindow ==
    /\ pc = "spawn"
    /\ calls' = Append(calls, "spawn")
    /\ \E started \in BOOLEAN :
          /\ attachRc' = IF started THEN 0 ELSE 1
          /\ IF started THEN pc' = "replaced" /\ UNCHANGED exitCode
             ELSE Exit(1)
    /\ UNCHANGED <<inputs, tmuxVars, lineno, index, session, directory, clientProbe,
                   windowProbe, window_count>>

Next ==
    \/ CheckArgs
    \/ OpenFile
    \/ ReadLine
    \/ GetSessionAndDir
    \/ EnsureTmuxSession
    \/ GetMostRecentClient
    \/ SwitchExistingClient
    \/ CountAlacrittyWindows
    \/ TypeIntoAlacritty
    \/ CreateNewWindow

Spec == Init /\ [][Next]_vars

(***************************************************************************)
(* Vocabulary of the properties.                                           *)
(***************************************************************************)
KeyInput == argv[1]

\* get_session_and_dir has returned a session and a directory
Resolved ==
    \/ pc \in {"ensure", "client", "switch", "windows", "type", "spawn",
               "replaced"}
    \/ pc = "exit" /\ exitCode \in {0, 1}

\* get_session_and_dir has returned or has exited
ResolutionDone == Resolved \/ (pc = "exit" /\ exitCode = 65)

\* the process has ended, or has been replaced by the terminal
Ended == pc \in {"exit", "replaced"}

NumSessions == Len(index.sessions)

\* the decimal string of a one-digit number
Dec(i) == << <<"0", "1", "2", "3", "4", "5", "6", "7", "8", "9">>[i + 1] >>

MinusOne == <<"-", "1">>

Called(c) == \E i \in 1..Len(calls) : calls[i] = c

\* how many of the three attach actions were issued
TiersRun ==
    Cardinality({i \in 1..Len(calls) :
                    calls[i] \in {"switch-client", "type", "spawn"}})

\* the stripped line is neither blank nor a comment
IsEntry(raw) == Strip(raw) # <<>> /\ Head(Strip(raw)) # "#"

NumColons(s) == Cardinality({i \in 1..Len(s) : s[i] = ":"})

\* ReadLine is about to read a line
Reading == pc = "parse" /\ lineno <= Len(file)

(***************************************************************************)
(* C1. Positional addressing: with N sessions parsed and a key input that  *)
(* is no mapped key, the decimal string of i, 0 <= i < N, resolves to the  *)
(* i-th session in file order, and the string of N and "-1" exit with 65   *)
(* instead of returning a session.                                         *)
(***************************************************************************)
C1_PositionalAddressing ==
    (ResolutionDone /\ KeyInput \notin DOMAIN index.num_map) =>
        /\ \A i \in 0..(NumSessions - 1) :
              KeyInput = Dec(i) =>
                  Resolved /\ session = index.sessions[i + 1]
        /\ (NumSessions <= 9 /\ KeyInput = Dec(NumSessions)) =>
              (pc = "exit" /\ exitCode = 65)
        /\ KeyInput = MinusOne => (pc = "exit" /\ exitCode = 65)

(***************************************************************************)
(* C2. Unkeyed name:directory lines: every line <name>:<directory> with a  *)
(* non-empty name and exactly one colon, not a comment, appends name to    *)
(* sessions, sets dirs[name] to the expanded directory and leaves num_map  *)
(* alone.  This is the claim as written.                                   *)
(***************************************************************************)
IsNameDirLine(raw) ==
    /\ IsEntry(raw)
    /\ NumColons(Strip(raw)) = 1
    /\ Find(Strip(raw), ":") > 1

NameDirEffect(raw) ==
    LET line  == Strip(raw)
        p     == Find(line, ":")
        name  == SubSeq(line, 1, p - 1)
        rawdir == SubSeq(line, p + 1, Len(line))
    IN  /\ index'.sessions = Append(index.sessions, name)
        /\ name \in DOMAIN index'.dirs
        /\ index'.dirs[name] = ExpandUser(rawdir)
        /\ \A n \in DOMAIN index'.dirs \ {name} :
              n \in DOMAIN index.dirs /\ index'.dirs[n] = index.dirs[n]
        /\ index'.num_map = index.num_map

C2_UnkeyedNameDir ==
    [][(Reading /\ IsNameDirLine(file[lineno])) =>
           NameDirEffect(file[lineno])]_vars

(***************************************************************************)
(* C2, amended.  The same, for the lines whose name holds a character that *)
(* is no ASCII letter or digit: a line whose name is alphanumeric (and     *)
(* whose directory is not empty) matches the key pattern and is read as    *)
(* <key>:<name>.                                                           *)
(***************************************************************************)
NameIsNoKeyToken(raw) ==
    \E i \in 1..(Find(Strip(raw), ":") - 1) : Strip(raw)[i] \notin Alnum

C2_UnkeyedNameDirNoKeyToken ==
    [][(Reading /\ IsNameDirLine(file[lineno])
           /\ NameIsNoKeyToken(file[lineno])) =>
           NameDirEffect(file[lineno])]_vars

\* "m-p:~/w " has been read: m-p is a session, with directory $HOME/w
C2_Witness ==
    /\ pc = "parse"
    /\ lineno = 2
    /\ file[1] = LineNameDir
    /\ index.sessions = << <<"m", "-", "p">> >>
    /\ index.dirs[<<"m", "-", "p">>] = Home \o <<"/", "w">>
    /\ index.num_map = EmptyDict

(***************************************************************************)
(* C3. First key wins: a line whose key token an earlier line carried is   *)
(* dropped entirely (sessions, dirs and num_map stay as they are), and the *)
(* key stays mapped to the name of the first line that carried it.         *)
(***************************************************************************)
\* the line carries a key token: "<alphanumerics>:<something>"
CarriesKey(raw) ==
    LET line == Strip(raw)
        p == Find(line, ":")
    IN  /\ IsEntry(raw)
        /\ p > 1
        /\ p < Len(line)
        /\ \A i \in 1..(p - 1) : line[i] \in Alnum

KeyOf(raw) == SubSeq(Strip(raw), 1, Find(Strip(raw), ":") - 1)

\* the session name of a keyed line: what follows the key, up to the next
\* colon if there is one
NameOf(raw) ==
    LET line == Strip(raw)
        rest == SubSeq(line, Find(line, ":") + 1, Len(line))
    IN  IF Find(rest, ":") = 0 THEN rest
        ELSE SubSeq(rest, 1, Find(rest, ":") - 1)

\* the lines before lineno that carry the key of line lineno
EarlierWithKey ==
    {j \in 1..(lineno - 1) :
        CarriesKey(file[j]) /\ KeyOf(file[j]) = KeyOf(file[lineno])}

FirstOf(S) == CHOOSE j \in S : \A k \in S : j <= k

C3_FirstKeyWins ==
    [][(Reading /\ CarriesKey(file[lineno])) =>
           IF EarlierWithKey # {}
           THEN /\ index' = index
                /\ index.num_map[KeyOf(file[lineno])] =
                      NameOf(file[FirstOf(EarlierWithKey)])
           ELSE /\ KeyOf(file[lineno]) \in DOMAIN index'.num_map
                /\ index'.num_map[KeyOf(file[lineno])] = NameOf(file[lineno])
      ]_vars

\* "a:alpha:~/proj/alpha" then "a:b:rel" have been read: a is alpha, and b
\* is no session
C3_Witness ==
    /\ pc = "parse"
    /\ lineno = 3
    /\ file[1] = LineAlpha
    /\ file[2] = LineDupKey
    /\ NameOf(file[1]) # NameOf(file[2])
    /\ index.num_map[<<"a">>] = <<"a", "l", "p", "h", "a">>
    /\ index.sessions = << <<"a", "l", "p", "h", "a">> >>
    /\ DOMAIN index.dirs = { <<"a", "l", "p", "h", "a">> }

(***************************************************************************)
(* C4. The end-to-end example, as written: for the jumplist                *)
(* "a:alpha:~/proj/alpha", "dev", "5:staging:/srv/staging", key "a" gives  *)
(* alpha in $HOME/proj/alpha, key "0" gives dev, key "5" gives staging in  *)
(* /srv/staging, and key "9" is out of range (exit 65).                    *)
(***************************************************************************)
Alpha == <<"a", "l", "p", "h", "a">>

Dev == <<"d", "e", "v">>

Staging == <<"s", "t", "a", "g", "i", "n", "g">>

AlphaDir == Home \o <<"/", "p", "r", "o", "j", "/">> \o Alpha

StagingDir == <<"/", "s", "r", "v", "/">> \o Staging

ExampleDone == file = ExampleFile /\ ResolutionDone

C4_ExampleKeyed ==
    /\ KeyInput = <<"a">> =>
          (Resolved /\ session = Alpha /\ directory = AlphaDir)
    /\ KeyInput = <<"5">> =>
          (Resolved /\ session = Staging /\ directory = StagingDir)
    /\ KeyInput = <<"9">> => (pc = "exit" /\ exitCode = 65)

C4_Example ==
    ExampleDone =>
        /\ C4_ExampleKeyed
        /\ KeyInput = <<"0">> => (Resolved /\ session = Dev)

(***************************************************************************)
(* C4, amended.  In the example key "0" gives alpha, the first session in  *)
(* file order (a keyed line takes a position too), and key "1" gives dev;  *)
(* the rest is as written.                                                 *)
(***************************************************************************)
C4_ExampleFileOrder ==
    ExampleDone =>
        /\ C4_ExampleKeyed
        /\ KeyInput = <<"0">> =>
              (Resolved /\ session = Alpha /\ directory = AlphaDir)
        /\ KeyInput = <<"1">> => (Resolved /\ session = Dev)

\* the example's jumplist, key "0" resolved
C4_Witness ==
    /\ file = ExampleFile
    /\ Resolved
    /\ KeyInput = <<"0">>
    /\ index.sessions = <<Alpha, Dev, Staging>>
    /\ session = index.sessions[1]

(***************************************************************************)
(* C5. Symbolic precedence: a key input that is a mapped key resolves to   *)
(* the mapped session, also when it is the decimal string of a valid index *)
(* of another session.                                                     *)
(***************************************************************************)
C5_SymbolicPrecedence ==
    (ResolutionDone /\ KeyInput \in DOMAIN index.num_map) =>
        (Resolved /\ session = index.num_map[KeyInput])

\* key "1" is mapped, and sessions[1] is another session
C5_Witness ==
    /\ Resolved
    /\ KeyInput = <<"1">>
    /\ KeyInput \in DOMAIN index.num_map
    /\ NumSessions >= 2
    /\ index.sessions[2] # index.num_map[KeyInput]
    /\ session = <<"w", "o", "r", "k">>

(***************************************************************************)
(* C6. Directory fallback order: the directory is dirs[session] if there   *)
(* is one (also when ~/<session> is a directory), else ~/<session> if that *)
(* is a directory, else the home directory; every resolved session gets a  *)
(* directory.                                                              *)
(***************************************************************************)
C6_DirectoryFallback ==
    Resolved =>
        directory =
            IF session \in DOMAIN index.dirs THEN index.dirs[session]
            ELSE IF (Home \o <<"/">> \o session) \in fs
            THEN Home \o <<"/">> \o session
            ELSE Home

\* alpha declares a directory, and ~/alpha is a directory too
C6_Witness ==
    /\ Resolved
    /\ session = Alpha
    /\ session \in DOMAIN index.dirs
    /\ (Home \o <<"/">> \o session) \in fs
    /\ directory = AlphaDir

(***************************************************************************)
(* C7. The directory of every resolved target is an absolute, expanded     *)
(* path: not empty, beginning with "/", holding no "~".                    *)
(***************************************************************************)
IsAbsoluteExpanded(path) ==
    /\ path # <<>>
    /\ Head(path) = "/"
    /\ ~Contains(path, "~")

C7_AbsoluteDirectory == Resolved => IsAbsoluteExpanded(directory)

(***************************************************************************)
(* C8. Exit codes and their precedence: no key argument exits 64 before    *)
(* the jumplist is read; else a missing jumplist exits 66 before the key   *)
(* is looked at; else a key that is neither mapped nor the decimal string  *)
(* of an index 0..N-1 exits 65; and the stages before the first external   *)
(* command exit with no other code.                                        *)
(***************************************************************************)
IsValidIndex(k) ==
    \E i \in 0..(NumSessions - 1) : i <= 9 /\ k = Dec(i)

C8_ExitCodes ==
    /\ (Len(argv) = 0 /\ pc # "main") =>
          (pc = "exit" /\ exitCode = 64 /\ lineno = 1 /\ index = EmptyIndex)
    /\ (Len(argv) >= 1 /\ ~fileExists /\ pc \notin {"main", "open"}) =>
          (pc = "exit" /\ exitCode = 66 /\ lineno = 1 /\ session = <<>>)
    /\ (Len(argv) >= 1 /\ fileExists /\ ResolutionDone
           /\ KeyInput \notin DOMAIN index.num_map
           /\ ~IsValidIndex(KeyInput)) =>
          (pc = "exit" /\ exitCode = 65)
    /\ (pc = "exit" /\ calls = <<>>) => exitCode \in {64, 65, 66}

(***************************************************************************)
(* C9. Exactly one attach tier per resolved invocation: switch-client iff  *)
(* a client is reported; typing into a window iff none is reported and the *)
(* window count is positive; a new window iff none is reported and the     *)
(* count is 0; with a client reported, no window count and no new window.  *)
(***************************************************************************)
ClientReported == clientProbe.how = "client"

C9_ExactlyOneTier ==
    (Ended /\ Resolved) =>
        /\ TiersRun = 1
        /\ Called("switch-client") <=> ClientReported
        /\ Called("type") <=> (~ClientReported /\ window_count > 0)
        /\ Called("spawn") <=> (~ClientReported /\ window_count = 0)
        /\ ClientReported =>
              (~Called("count-windows") /\ ~Called("spawn"))

(***************************************************************************)
(* C10. Probe failures are never fatal: whatever way the client probe or   *)
(* the window probe fails (non-zero exit, empty or non-numeric output, not *)
(* starting), it counts as "no client" or "0 windows" and the invocation   *)
(* ends having issued an attach action.                                    *)
(***************************************************************************)
ProbeFailures == {"nonzero", "garbage", "nostart"}

C10_ProbesNeverFatal ==
    (Ended /\ Resolved) =>
        /\ clientProbe.how \in ProbeFailures =>
              (Called("count-windows") /\ ~Called("switch-client"))
        /\ windowProbe.how \in ProbeFailures =>
              (window_count = 0 /\ Called("spawn"))
        /\ (Called("switch-client") \/ Called("type") \/ Called("spawn"))

(***************************************************************************)
(* C11. Exit code 0 means success: the process exits with 0 only if the    *)
(* attach action it ran succeeded; a switch that fails is followed by the  *)
(* window count, a typed attach that fails by the new window, and a new    *)
(* window that fails by a non-zero exit.                                   *)
(***************************************************************************)
AttachFailed == attachRc \notin {0, Running}

C11_ZeroMeansSuccess ==
    Ended =>
        /\ (pc = "exit" /\ exitCode = 0) => attachRc = 0
        /\ (Called("switch-client") /\ AttachFailed /\ ~Called("type")
               /\ ~Called("spawn")) => Called("count-windows")
        /\ (Called("type") /\ AttachFailed) => Called("spawn")
        /\ (Called("spawn") /\ AttachFailed) =>
              (pc = "exit" /\ exitCode # 0)

(***************************************************************************)
(* C16. Abort leaves the outside world unchanged: an invocation that exits *)
(* with 64, 65 or 66 has issued no tmux command and no terminal or window  *)
(* action, and no such command is issued before the jumplist is parsed to  *)
(* its end and the key is resolved.                                        *)
(***************************************************************************)
C16_AbortIssuesNothing ==
    /\ (pc = "exit" /\ exitCode \in {64, 65, 66}) =>
          (calls = <<>> /\ attachRc = Running)
    /\ calls # <<>> =>
          (Resolved /\ fileExists /\ lineno = Len(file) + 1)

\* a jumplist with a session was parsed to its end, and the key was refused
C16_Witness ==
    /\ pc = "exit"
    /\ exitCode = 65
    /\ lineno = Len(file) + 1
    /\ NumSessions >= 1
    /\ calls = <<>>

(***************************************************************************)
(* Invocations sharing one tmux server.  Each has resolved its session and *)
(* directory and runs main from ensure_tmux_session on; has-session and    *)
(* new-session are two commands, so that the steps of two invocations      *)
(* interleave between them.  Every tmux command is either served by the    *)
(* server or fails (exits non-zero and changes nothing).                   *)
(***************************************************************************)
Work == <<"w", "o", "r", "k">>

\* the sessions and directories the invocations resolve to
TmuxSessions == {Dev, Work}

TmuxDirs == {Home, Home \o <<"/">> \o Dev}

\* the server's table at the start: empty, or dev rooted at /x
Registries == {<<>>, <<[name |-> Dev, dir |-> <<"/", "x">>]>>}

\* the variables of the one-invocation specification, not used here
MainParked ==
    /\ argv = <<>>
    /\ fileExists = FALSE
    /\ file = <<>>
    /\ fs = {}
    /\ pc = "parked"
    /\ lineno = 1
    /\ index = EmptyIndex
    /\ session = <<>>
    /\ directory = <<>>
    /\ clientProbe = NoProbe
    /\ windowProbe = NoProbe
    /\ window_count = 0
    /\ calls = <<>>
    /\ attachRc = Running
    /\ exitCode = Running

InitTmux ==
    /\ MainParked
    /\ registry0 \in Registries
    /\ registry = registry0
    /\ inv \in [Procs ->
                 {[IdleInvocation EXCEPT !.pc = "ensure", !.session = s,
                                         !.dir = d] :
                     s \in TmuxSessions, d \in TmuxDirs}]

\* ensure_tmux_session has returned in invocation i
PastEnsure(i) ==
    i.pc \in {"client", "switch", "windows", "type", "spawn", "done",
              "aborted"}

NumNewSession(cmds) ==
    Cardinality({k \in 1..Len(cmds) : cmds[k].cmd = "new-session"})

\* ensure_tmux_session, line 138: has-session, and the test of its status
EnsureProbe(p) ==
    /\ inv[p].pc = "ensure"
    /\ \E served \in BOOLEAN :
          LET retcode == HasSessionStatus(registry, inv[p].session, served)
              todo == EnsureCommands(retcode, inv[p].session, inv[p].dir)
          IN  inv' = [inv EXCEPT
                  ![p].todo = todo,
                  ![p].pc = IF todo = <<>> THEN "client" ELSE "create",
                  ![p].afterOther =
                      \A q \in Procs \ {p} : PastEnsure(inv[q])]
    /\ UNCHANGED <<mainVars, registry, registry0>>

\* ensure_tmux_session, line 141: new-session, its status dropped
EnsureCreate(p) ==
    /\ inv[p].pc = "create"
    /\ \E served \in BOOLEAN :
          registry' = IF served THEN TmuxRun(registry, inv[p].todo)
                      ELSE registry
    /\ inv' = [inv EXCEPT
           ![p].newCalls = @ + NumNewSession(inv[p].todo),
           ![p].todo = <<>>,
           ![p].pc = "client"]
    /\ UNCHANGED <<mainVars, registry0>>

\* get_most_recent_client, and main's test of what it returned
CascadeClient(p) ==
    /\ inv[p].pc = "client"
    /\ \E pr \in ClientProbes :
          inv' = [inv EXCEPT
              ![p].pc = IF Strip(pr.out) # <<>> THEN "switch" ELSE "windows"]
    /\ UNCHANGED <<mainVars, registry, registry0>>

\* an attach action of invocation p: its kind, and whether its target
\* session is in the server's table when it is issued
Attach(p, kind) ==
    inv' = [inv EXCEPT
        ![p].attach = kind,
        ![p].targetExisted = HasNamed(registry, inv[p].session),
        ![p].pc = "done"]

\* switch_existing_client
CascadeSwitch(p) ==
    /\ inv[p].pc = "switch"
    /\ Attach(p, "switch")
    /\ UNCHANGED <<mainVars, registry, registry0>>

\* count_alacritty_windows, and main's test of what it returned
CascadeWindows(p) ==
    /\ inv[p].pc = "windows"
    /\ \E pr \in WindowProbes :
          inv' = [inv EXCEPT
              ![p].pc = IF pr.how = "nostart" THEN "aborted"
                        ELSE IF WindowCount(Strip(pr.out)) > 0 THEN "type"
                        ELSE "spawn"]
    /\ UNCHANGED <<mainVars, registry, registry0>>

\* type_into_alacritty
CascadeType(p) ==
    /\ inv[p].pc = "type"
    /\ Attach(p, "type")
    /\ UNCHANGED <<mainVars, registry, registry0>>

\* create_new_window
CascadeSpawn(p) ==
    /\ inv[p].pc = "spawn"
    /\ Attach(p, "spawn")
    /\ UNCHANGED <<mainVars, registry, registry0>>

NextTmux ==
    \E p \in Procs :
        \/ EnsureProbe(p)
        \/ EnsureCreate(p)
        \/ CascadeClient(p)
        \/ CascadeSwitch(p)
        \/ CascadeWindows(p)
        \/ CascadeType(p)
        \/ CascadeSpawn(p)

SpecTmux == InitTmux /\ [][NextTmux]_vars

(***************************************************************************)
(* C12. Idempotent session creation: ensure_tmux_session called twice in   *)
(* sequence with the same session and directory, for a session that does   *)
(* not exist at first, issues exactly one new-session, in the first call,  *)
(* and none in the second.  (No call raises: there is no step from         *)
(* "ensure" or "create" to "aborted".)                                     *)
(***************************************************************************)
\* invocation b called ensure_tmux_session after a's call had returned,
\* both for the same session and directory, absent at the start
TwiceInSequence(a, b) ==
    /\ a # b
    /\ inv[a].session = inv[b].session
    /\ inv[a].dir = inv[b].dir
    /\ ~HasNamed(registry0, inv[a].session)
    /\ inv[b].afterOther
    /\ PastEnsure(inv[a])
    /\ PastEnsure(inv[b])

C12_IdempotentCreation ==
    \A a, b \in Procs :
        TwiceInSequence(a, b) =>
            (inv[a].newCalls = 1 /\ inv[b].newCalls = 0)

(***************************************************************************)
(* C13. Ensurer postcondition: once ensure_tmux_session has returned, the  *)
(* session is in the server's table, and every attach action issued        *)
(* afterwards found its target there.                                      *)
(***************************************************************************)
C13_EnsurerPostcondition ==
    \A p \in Procs :
        PastEnsure(inv[p]) =>
            /\ HasNamed(registry, inv[p].session)
            /\ inv[p].attach # "none" => inv[p].targetExisted

(***************************************************************************)
(* C14. Concurrent invocations ensuring the same absent session: however   *)
(* their steps interleave, once both calls of ensure_tmux_session have     *)
(* returned the table holds exactly one session of that name, and both     *)
(* invocations are in the attach cascade.                                  *)
(***************************************************************************)
NumNamed(reg, name) ==
    Cardinality({i \in 1..Len(reg) : reg[i].name = name})

SameAbsentSession(a, b) ==
    /\ a # b
    /\ inv[a].session = inv[b].session
    /\ ~HasNamed(registry0, inv[a].session)

C14_RaceTolerated ==
    \A a, b \in Procs :
        (SameAbsentSession(a, b) /\ inv[a].pc \notin {"ensure", "create"}
            /\ inv[b].pc \notin {"ensure", "create"}) =>
            /\ NumNamed(registry, inv[a].session) = 1
            /\ PastEnsure(inv[a])
            /\ PastEnsure(inv[b])

(***************************************************************************)
(* C15. Registry frame: a step changes the server's table only by adding   *)
(* the session and directory of an invocation whose has-session reported   *)
(* the session absent, when no session of that name is there; no entry is  *)
(* removed, renamed or given another directory.                            *)
(***************************************************************************)
C15_RegistryFrame ==
    [][\/ registry' = registry
       \/ \E p \in Procs :
             /\ inv[p].pc = "create"
             /\ ~HasNamed(registry, inv[p].session)
             /\ registry' =
                   Append(registry,
                          [name |-> inv[p].session, dir |-> inv[p].dir])
      ]_vars

\* new-session was issued for a session that is in the table with another
\* directory than the one resolved, and the table is as it was
C15_Witness ==
    \E p \in Procs :
        /\ PastEnsure(inv[p])
        /\ inv[p].newCalls = 1
        /\ registry = registry0
        /\ \E i \in 1..Len(registry) :
              /\ registry[i].name = inv[p].session
              /\ registry[i].dir # inv[p].dir

=============================================================================
